---- MODULE Spec2Model ----
(***************************************************************************)
(* Model of the mail ingestion-and-filtering pipeline of fe_scraping:      *)
(*   src/common/text_normalizer.py  (normalize_text, html_to_text)         *)
(*   src/filters/mail_filter.py     (filter_message and its helpers)       *)
(*   src/review/exporters.py        (append_excluded)                      *)
(*   src/filters/noise_reducer.py   (reduce_noise)                         *)
(* Text is a sequence of Unicode code points (naturals).  None is the      *)
(* record NoneVal; a present text t is Some(t).                           *)
(***************************************************************************)
EXTENDS Integers, Sequences, FiniteSets, TLC

VARIABLES
    \* ---- normalize_text driver (SpecNorm)
    nPc, nText, nOpts, nOnce, nTwice,
    \* ---- filter_message (Spec)
    pc, msg, config,
    blocked_exts, keywords, opts,
    blocked_file, subject_raw, body_raw, body_from,
    subject_norm, body_norm, keyword_norms, haystack, kwIdx,
    normalized, matched, result,
    \* ---- append_excluded (SpecExport)
    files, calls, today, ePc, eCall,
    \* ---- reduce_noise (SpecNoise)
    rPc, rText, rCur, rIdx, rOut,
    \* ---- imap_fetch.main (SpecFetch)
    jPc, jArgs, jFound, jServer, jUids, jIdx, jSaved, jArchive, jLog, jReported

nvars == <<nPc, nText, nOpts, nOnce, nTwice>>
fvars == <<pc, msg, config, blocked_exts, keywords, opts,
           blocked_file, subject_raw, body_raw, body_from,
           subject_norm, body_norm, keyword_norms, haystack, kwIdx,
           normalized, matched, result>>
evars == <<files, calls, today, ePc, eCall>>
rvars == <<rPc, rText, rCur, rIdx, rOut>>
jvars == <<jPc, jArgs, jFound, jServer, jUids, jIdx, jSaved, jArchive, jLog, jReported>>
xvars == <<rvars, jvars>>
vars == <<nvars, fvars, evars, xvars>>

(***************************************************************************)
(* Bounds of the model.                                                    *)
(***************************************************************************)
MaxLen == 3
MaxParts == 2
MaxKeywords == 2
MaxCalls == 3
MaxLines == 3
MaxUids == 3

(***************************************************************************)
(* Optional[str]                                                           *)
(***************************************************************************)
NoneVal == [present |-> FALSE, chars |-> <<>>]
Some(s) == [present |-> TRUE, chars |-> s]

\* Python truthiness of an Optional[str]: None and "" are falsy.
Truthy(o) == o.present /\ o.chars # <<>>

(***************************************************************************)
(* Code points used by the model.                                          *)
(*   10 LF, 32 space, 46 '.', 60 '<', 62 '>', 65.. 'A'.., 97.. 'a'..       *)
(*   12288 U+3000 ideographic space, 65313 U+FF21 fullwidth A,             *)
(*   12431 U+308F hiragana WA, 12527 U+30EF katakana WA,                   *)
(*   12441 U+3099 combining voiced sound mark, 12535 U+30F7 katakana VA    *)
(***************************************************************************)
IsSpace(c) == c \in {9, 10, 11, 12, 13, 32, 12288}

RECURSIVE SeqsUpTo(_, _)
SeqsUpTo(S, n) ==
    IF n = 0 THEN {<<>>}
    ELSE LET shorter == SeqsUpTo(S, n - 1)
         IN  shorter \cup {Append(s, c) : s \in {t \in shorter : Len(t) = n - 1}, c \in S}

\* Python: k in h  (substring containment on str)
Contains(h, k) ==
    \E i \in 0..(Len(h) - Len(k)) : SubSeq(h, i + 1, i + Len(k)) = k

\* min(S) of a non-empty set of integers
MinOf(S) == CHOOSE i \in S : \A j \in S : i <= j

\* Python: sep.join(list)
RECURSIVE Join(_, _)
Join(list, sep) ==
    IF list = <<>> THEN <<>>
    ELSE IF Len(list) = 1 THEN list[1]
    ELSE list[1] \o sep \o Join(Tail(list), sep)

(***************************************************************************)
(* unicodedata.normalize("NFKC", s): compatibility decomposition followed  *)
(* by canonical composition, restricted to the code points above.          *)
(***************************************************************************)
\* Full decomposition of one code point.
Decompose(c) ==
    IF c \in 65281..65374 THEN <<c - 65248>>          \* fullwidth ASCII forms
    ELSE IF c = 12288 THEN <<32>>                     \* ideographic space
    ELSE IF c = 12535 THEN <<12527, 12441>>           \* VA = WA + voiced mark
    ELSE <<c>>

RECURSIVE DecomposeStr(_)
DecomposeStr(s) ==
    IF s = <<>> THEN <<>> ELSE Decompose(Head(s)) \o DecomposeStr(Tail(s))

\* Primary composite of a starter and a following combining mark, 0 if none.
\* Hiragana WA (12431) has no voiced composite; katakana WA (12527) has.
ComposePair(a, b) == IF a = 12527 /\ b = 12441 THEN 12535 ELSE 0

RECURSIVE ComposeStr(_)
ComposeStr(s) ==
    IF Len(s) < 2 THEN s
    ELSE IF ComposePair(s[1], s[2]) # 0
         THEN ComposeStr(<<ComposePair(s[1], s[2])>> \o SubSeq(s, 3, Len(s)))
         ELSE <<s[1]>> \o ComposeStr(Tail(s))

NFKC(s) == ComposeStr(DecomposeStr(s))

(***************************************************************************)
(* hiragana -> katakana (fallback path of normalize_text, lines 61-63):    *)
(* chr(ord(ch) + 0x60) for U+3041..U+3096.                                 *)
(***************************************************************************)
KanaOffset == 96
hira2kata(s) ==
    [i \in DOMAIN s |-> IF s[i] \in 12353..12438 THEN s[i] + KanaOffset ELSE s[i]]

\* str.lower() on the model's code points: ASCII and fullwidth capitals.
LowerChar(c) ==
    IF c \in 65..90 THEN c + 32
    ELSE IF c \in 65313..65338 THEN c + 32
    ELSE c
lower(s) == [i \in DOMAIN s |-> LowerChar(s[i])]

\* re.sub(r"\s+", " ", s): every maximal run of whitespace becomes one space.
RECURSIVE CollapseSpaces(_)
CollapseSpaces(s) ==
    IF s = <<>> THEN <<>>
    ELSE IF IsSpace(s[1])
         THEN IF Len(s) >= 2 /\ IsSpace(s[2])
              THEN CollapseSpaces(Tail(s))
              ELSE <<32>> \o CollapseSpaces(Tail(s))
         ELSE <<s[1]>> \o CollapseSpaces(Tail(s))

\* str.strip()
RECURSIVE LStrip(_)
LStrip(s) == IF s # <<>> /\ IsSpace(s[1]) THEN LStrip(Tail(s)) ELSE s
RECURSIVE RStrip(_)
RStrip(s) ==
    IF s # <<>> /\ IsSpace(s[Len(s)]) THEN RStrip(SubSeq(s, 1, Len(s) - 1)) ELSE s
strip(s) == RStrip(LStrip(s))

\* normalize_text(text, to_half_width, unify_kana, trim_spaces)
normalize_text(text, to_half_width, unify_kana, trim_spaces) ==
    IF ~Truthy(text) THEN <<>>
    ELSE LET s1 == IF to_half_width THEN NFKC(text.chars) ELSE text.chars
             s2 == IF unify_kana THEN hira2kata(s1) ELSE s1
             s3 == lower(s2)
         IN  IF trim_spaces THEN strip(CollapseSpaces(s3)) ELSE s3

\* html_to_text, regex fallback (line 29): re.sub(r"<[^>]+>", " ", html).
\* Index of the first '>' at or after position i, 0 if none.
RECURSIVE NextGt(_, _)
NextGt(s, i) ==
    IF i > Len(s) THEN 0 ELSE IF s[i] = 62 THEN i ELSE NextGt(s, i + 1)

RECURSIVE StripTags(_)
StripTags(s) ==
    IF s = <<>> THEN <<>>
    ELSE IF s[1] = 60 /\ Len(s) >= 3 /\ s[2] # 62 /\ NextGt(s, 3) # 0
         THEN <<32>> \o StripTags(SubSeq(s, NextGt(s, 3) + 1, Len(s)))
         ELSE <<s[1]>> \o StripTags(Tail(s))

html_to_text(html) == IF html = <<>> THEN <<>> ELSE StripTags(html)

(***************************************************************************)
(* Messages.  A message is its subject header and the parts msg.walk()     *)
(* yields, in walk order.  A part has a content type (maintype/subtype),   *)
(* the raw Content-Disposition header ("" when absent), get_filename()     *)
(* (None when absent), its decoded payload text, and whether its declared  *)
(* charset is one payload.decode() accepts.                                *)
(***************************************************************************)
CT(m, s) == [main |-> m, sub |-> s]
Part(ct, d, fn, t, ok) ==
    [ctype |-> ct, disp |-> d, filename |-> fn, text |-> t, charset_ok |-> ok]

W_attachment == <<97, 116, 116, 97, 99, 104, 109, 101, 110, 116>>   \* "attachment"
W_ATTACHMENT == <<65, 116, 116, 97, 99, 104, 109, 101, 110, 116>>   \* "Attachment"
W_inline == <<105, 110, 108, 105, 110, 101>>                    \* "inline"
W_exe == <<101, 120, 101>>                                   \* "exe"
W_jpg == <<106, 112, 103>>                                   \* "jpg"
F_a_EXE == <<97, 46, 69, 88, 69>>                              \* "a.EXE"
F_p_jpg == <<112, 46, 106, 112, 103>>                          \* "p.jpg"
F_README == <<82, 69, 65, 68, 77, 69>>                          \* "README"
T_A_b == <<65, 32, 98>>                                      \* "A b"
T_html == <<60, 105, 62, 98, 60, 47, 105, 62>>                \* "<i>b</i>"

(***************************************************************************)
(* _decode_mime_words(value): "" for None or "", else the RFC 2047         *)
(* decoding.  The header values of the model hold no encoded word          *)
(* ("=?...?="), for which decode_header returns [(value, None)] and the    *)
(* function returns the value unchanged.                                   *)
(***************************************************************************)
decode_mime_words(value) == IF ~Truthy(value) THEN <<>> ELSE value.chars

(***************************************************************************)
(* _extract_subject_and_body(msg)                                          *)
(***************************************************************************)
\* A mutation of IsBodyCandidate: the disposition is not looked at.
IsBodyCandidate_NoDisp(p) == p.ctype.main = "text" /\ p.charset_ok

\* line 83: ctype.startswith("text/") and "attachment" not in disp;
\* lines 84-89: a part whose payload fails to decode is skipped.
IsBodyCandidate(p) ==
    /\ p.ctype.main = "text"
    /\ ~Contains(lower(p.disp), W_attachment)
    /\ p.charset_ok

IsPlainBody(p) == IsBodyCandidate(p) /\ p.ctype.sub = "plain"
IsHtmlBody(p) == IsBodyCandidate(p) /\ p.ctype.sub = "html"

TextsOf(ps) == [i \in DOMAIN ps |-> ps[i].text]

\* multipart branch, lines 80-93
text_plain_parts_multi(m) == TextsOf(SelectSeq(m.parts, IsPlainBody))
text_html_parts_multi(m) == TextsOf(SelectSeq(m.parts, IsHtmlBody))

\* single-part branch, lines 96-106: a decode failure yields text = "".
single_text(m) == IF m.parts[1].charset_ok THEN m.parts[1].text ELSE <<>>
text_plain_parts_single(m) ==
    IF m.parts[1].ctype = CT("text", "plain") THEN <<single_text(m)>> ELSE <<>>
text_html_parts_single(m) ==
    IF m.parts[1].ctype = CT("text", "html") THEN <<single_text(m)>> ELSE <<>>

text_plain_parts(m) ==
    IF m.multipart THEN text_plain_parts_multi(m) ELSE text_plain_parts_single(m)
text_html_parts(m) ==
    IF m.multipart THEN text_html_parts_multi(m) ELSE text_html_parts_single(m)

\* lines 108-112: which list the body is built from
body_source(m) ==
    IF text_plain_parts(m) # <<>> THEN "plain"
    ELSE IF text_html_parts(m) # <<>> THEN "html"
    ELSE "none"

extract_body(m) ==
    IF text_plain_parts(m) # <<>> THEN Join(text_plain_parts(m), <<10>>)
    ELSE IF text_html_parts(m) # <<>>
         THEN html_to_text(Join(text_html_parts(m), <<10>>))
         ELSE <<>>

extract_subject(m) == decode_mime_words(m.subject)

(***************************************************************************)
(* _detect_blocked_attachment(msg, blocked_exts)                           *)
(***************************************************************************)
IMAGE_EXTS ==
    { <<106, 112, 103>>, <<106, 112, 101, 103>>, <<112, 110, 103>>,
      <<103, 105, 102>>, <<98, 109, 112>>, <<119, 101, 98, 112>> }

\* position of the last '.', 0 if there is none
RECURSIVE LastDot(_, _)
LastDot(s, i) == IF i = 0 THEN 0 ELSE IF s[i] = 46 THEN i ELSE LastDot(s, i - 1)

\* line 137: fname.rsplit(".", 1)[-1].lower() if "." in fname else ""
ExtOf(fname) ==
    IF LastDot(fname, Len(fname)) = 0 THEN <<>>
    ELSE lower(SubSeq(fname, LastDot(fname, Len(fname)) + 1, Len(fname)))

\* A mutation of PartBlocked: the extension is compared without lower-casing.
PartBlocked_CaseSensitive(p, exts) ==
    /\ Truthy(p.filename)
    /\ p.ctype.main # "image"
    /\ LET fname == decode_mime_words(p.filename)
           ext == IF LastDot(fname, Len(fname)) = 0 THEN <<>>
                  ELSE SubSeq(fname, LastDot(fname, Len(fname)) + 1, Len(fname))
       IN  ext \notin IMAGE_EXTS /\ ext \in exts

\* A mutation of PartBlocked: parts of type image/* are not skipped.
PartBlocked_NoImageSkip(p, exts) ==
    /\ Truthy(p.filename)
    /\ LET ext == ExtOf(decode_mime_words(p.filename))
       IN  ext \notin IMAGE_EXTS /\ ext \in exts

\* lines 127-143: the part makes the loop return its file name
PartBlocked(p, exts) ==
    /\ Truthy(p.filename)
    /\ p.ctype.main # "image"
    /\ LET ext == ExtOf(decode_mime_words(p.filename))
       IN  ext \notin IMAGE_EXTS /\ ext \in exts

RECURSIVE detect_from(_, _, _)
detect_from(ps, i, exts) ==
    IF i > Len(ps) THEN NoneVal
    ELSE IF PartBlocked(ps[i], exts) THEN Some(decode_mime_words(ps[i].filename))
    ELSE detect_from(ps, i + 1, exts)

detect_blocked_attachment(m, exts) == detect_from(m.parts, 1, exts)

(***************************************************************************)
(* Rule configuration (the dict yaml.safe_load returns).  A key is         *)
(* Missing, Null (present with no value) or Val(v).                        *)
(***************************************************************************)
Missing == [kind |-> "missing"]
Null == [kind |-> "null"]
Val(v) == [kind |-> "value", v |-> v]

\* d.get(key, default) where d is a dict modelled as a record of keys
Get(entry, default) == IF entry.kind = "missing" THEN default ELSE entry

\* (config.get(section, {}) or {}): a missing, null or empty section is {}
EmptyAttachments == [blocked_extensions |-> Missing]
EmptyKeywords == [blocklist |-> Missing]
EmptyNormalization ==
    [to_half_width |-> Missing, unify_kana |-> Missing, trim_spaces |-> Missing]
SectionOr(entry, empty) == IF entry.kind = "value" THEN entry.v ELSE empty

\* bool(norm_conf.get(flag, True)): missing -> True, null -> bool(None) = False
FlagOf(entry) ==
    IF entry.kind = "missing" THEN TRUE
    ELSE IF entry.kind = "null" THEN FALSE
    ELSE entry.v

\* line 169: set(None) raises TypeError
ReadConfigRaises(cfg) ==
    SectionOr(cfg.attachments, EmptyAttachments).blocked_extensions.kind = "null"

\* line 169
config_blocked_exts(cfg) ==
    Get(SectionOr(cfg.attachments, EmptyAttachments).blocked_extensions, Val({})).v

\* line 170: the list, or Null when the key is present with no value
config_keywords(cfg) ==
    Get(SectionOr(cfg.keywords, EmptyKeywords).blocklist, Val(<<>>))

\* lines 172-175
config_opts(cfg) ==
    LET n == SectionOr(cfg.normalization, EmptyNormalization)
    IN  [to_half |-> FlagOf(n.to_half_width),
         unify_k |-> FlagOf(n.unify_kana),
         trim_sp |-> FlagOf(n.trim_spaces)]

norm(t, o) == normalize_text(Some(t), o.to_half, o.unify_k, o.trim_sp)

(***************************************************************************)
(* FilterResult                                                            *)
(***************************************************************************)
FilterResult(p, r, d, s) ==
    [pass_through |-> p, reason |-> r, detail |-> d, subject |-> s]
NoResult == FilterResult(FALSE, "unset", NoneVal, <<>>)

(***************************************************************************)
(* Inputs of the filter runs.                                              *)
(***************************************************************************)
PartText == Part(CT("text", "plain"), <<>>, NoneVal, T_A_b, TRUE)
PartExe == Part(CT("application", "octet-stream"), W_attachment, Some(F_a_EXE), <<>>, TRUE)
PartJpgBin == Part(CT("application", "octet-stream"), W_attachment, Some(F_p_jpg), <<>>, TRUE)
PartJpgImg == Part(CT("image", "jpeg"), W_inline, Some(F_p_jpg), <<>>, TRUE)
PartExeImg == Part(CT("image", "png"), W_attachment, Some(F_a_EXE), <<>>, TRUE)
PartReadme == Part(CT("application", "octet-stream"), W_attachment, Some(F_README), <<>>, TRUE)
FilterParts == {PartText, PartExe, PartJpgBin, PartJpgImg, PartExeImg, PartReadme}

PartPlainAtt == Part(CT("text", "plain"), W_ATTACHMENT, Some(F_README), <<120>>, TRUE)
PartPlainBad == Part(CT("text", "plain"), <<>>, NoneVal, <<121>>, FALSE)
PartHtml == Part(CT("text", "html"), W_inline, NoneVal, T_html, TRUE)
PartCsv == Part(CT("text", "csv"), <<>>, NoneVal, <<122>>, TRUE)
ExtractParts == {PartText, PartPlainAtt, PartPlainBad, PartHtml, PartCsv, PartExe}

Subjects == {NoneVal, Some(<<98>>)}                    \* no Subject header, "b"

Messages(PS) ==
    {[subject |-> s, multipart |-> FALSE, parts |-> <<p>>] : s \in Subjects, p \in PS}
    \cup
    {[subject |-> s, multipart |-> TRUE, parts |-> ps] :
        s \in Subjects, ps \in SeqsUpTo(PS, MaxParts)}

Keywords == {<<32>>, <<65>>, <<98>>}                   \* " ", "A", "b"
ExtSets == {{W_exe}, {W_exe, W_jpg, <<>>}}          \* ["exe"], ["exe", "jpg", ""]
OptSets ==
    { [to_half_width |-> Missing, unify_kana |-> Missing, trim_spaces |-> Missing],
      [to_half_width |-> Missing, unify_kana |-> Missing, trim_spaces |-> Val(FALSE)],
      [to_half_width |-> Val(FALSE), unify_kana |-> Null, trim_spaces |-> Val(TRUE)] }

WellFormedConfigs ==
    {[attachments |-> Val([blocked_extensions |-> Val(e)]),
      keywords |-> Val([blocklist |-> Val(k)]),
      normalization |-> Val(o)] :
        e \in ExtSets, k \in SeqsUpTo(Keywords, MaxKeywords), o \in OptSets}

\* sections or keys missing, or present with no value
MalformedConfigs ==
    {[attachments |-> a, keywords |-> k, normalization |-> n] :
        a \in {Missing, Null, Val([blocked_extensions |-> Missing]),
               Val([blocked_extensions |-> Null])},
        k \in {Missing, Null, Val([blocklist |-> Missing]), Val([blocklist |-> Null]),
               Val([blocklist |-> Val(<<<<98>>>>)])},
        n \in {Missing, Null}}

Configs == WellFormedConfigs \cup MalformedConfigs

(***************************************************************************)
(* src/review/exporters.py.  A datetime is [day, hour, aware]; the review  *)
(* directory maps a period (the yyyymmdd of the message date) to a file,   *)
(* a sequence of CSV rows.  calls records the calls made so far; eCall     *)
(* holds the locals of a call between its two readings of the clock.       *)
(***************************************************************************)
PeriodIds == {1, 2, 3}
NoDate == [kind |-> "none"]
DateOf(d, h, a) == [kind |-> "date", day |-> d, hour |-> h, aware |-> a]
JstOffsetHours == 9

\* _message_datetime, lines 29-39: a missing or unparsable Date is now();
\* an aware datetime is moved to JST and made naive.
message_datetime(m, now) ==
    IF m.date.kind = "none" THEN now
    ELSE IF m.date.aware
         THEN [day |-> m.date.day + (m.date.hour + JstOffsetHours) \div 24,
               hour |-> (m.date.hour + JstOffsetHours) % 24]
         ELSE [day |-> m.date.day, hour |-> m.date.hour]

\* _decode_header, lines 13-27: the decoded header, stripped
decode_header_stripped(value) == IF ~Truthy(value) THEN <<>> ELSE strip(value.chars)

FieldNames == <<"logged_at", "uid", "date", "from", "subject", "reason", "detail">>
HeaderRow == [header |-> TRUE, cells |-> FieldNames]

\* dt.datetime.now() on the given day
Clock(day) == [day |-> day, hour |-> 12]

\* lines 47-55, in the order of fieldnames: d is the message datetime of
\* line 42, logged_at the clock as read at line 48
DataRow(uid, m, reason, detail, d, logged_at) ==
    [header |-> FALSE,
     cells |-> << logged_at, uid, d,
                  decode_header_stripped(m.from), decode_header_stripped(m.subject),
                  reason, IF Truthy(detail) THEN detail.chars ELSE <<>> >>]

\* A mutation of is_new: the file is always taken to be new.
is_new_Always(fs, ymd) == TRUE

\* line 45
is_new(fs, ymd) == ~fs[ymd].exists

\* lines 57-61: open for append, header if is_new (of line 45), then the row
written(fs, ymd, row, new) ==
    [fs EXCEPT ![ymd] =
        [exists |-> TRUE,
         rows |-> @.rows \o (IF new THEN <<HeaderRow>> ELSE <<>>) \o <<row>>]]

ExportMsgs ==
    { [date |-> NoDate, from |-> NoneVal, subject |-> Some(<<32, 98>>)],
      [date |-> DateOf(1, 3, FALSE), from |-> Some(<<97>>), subject |-> NoneVal],
      [date |-> DateOf(1, 20, TRUE), from |-> Some(<<97>>), subject |-> Some(<<98>>)],
      [date |-> DateOf(2, 3, TRUE), from |-> Some(<<97>>), subject |-> Some(<<98>>)] }
Uids == {"7", "8"}
Exclusions == { <<"attachment", Some(F_a_EXE)>>, <<"keyword", NoneVal>> }

(***************************************************************************)
(* filter_message(msg, config), one action per step of the function.       *)
(*   pc: "start" -> "detect" -> "extract" -> "decide" -> "keywords"        *)
(*       -> "match" -> "done", or "raised" when an exception propagates.   *)
(* normalized: normalize_text has been called; matched: a keyword has been *)
(* tested against the haystack.                                            *)
(***************************************************************************)
NormIdle ==
    /\ nPc = "idle" /\ nText = NoneVal /\ nOnce = <<>> /\ nTwice = <<>>
    /\ nOpts = [to_half |-> TRUE, unify_k |-> TRUE, trim_sp |-> TRUE]

FilterIdle(p) ==
    /\ pc = p
    /\ blocked_exts = {} /\ keywords = Val(<<>>)
    /\ opts = [to_half |-> TRUE, unify_k |-> TRUE, trim_sp |-> TRUE]
    /\ blocked_file = NoneVal /\ subject_raw = <<>> /\ body_raw = <<>>
    /\ body_from = "unset"
    /\ subject_norm = <<>> /\ body_norm = <<>>
    /\ keyword_norms = <<>> /\ haystack = <<>> /\ kwIdx = 0
    /\ normalized = FALSE /\ matched = FALSE
    /\ result = NoResult

DefaultConfig == [attachments |-> Missing, keywords |-> Missing, normalization |-> Missing]
EmptyMessage == [subject |-> NoneVal, multipart |-> TRUE, parts |-> <<>>]

\* data/review holds no file
ExportIdle ==
    /\ files = [p \in PeriodIds |-> [exists |-> FALSE, rows |-> <<>>]]
    /\ calls = <<>>
    /\ today = 1
    /\ ePc = "idle" /\ eCall = <<>>

\* reduce_noise has not been called
NoiseIdle ==
    /\ rPc = "idle" /\ rText = <<>> /\ rCur = <<>> /\ rIdx = 1 /\ rOut = <<>>

\* line 237 has not printed the saved count
NotReported == [printed |-> FALSE, count |-> 0]

\* the fetch job has not started
FetchIdle ==
    /\ jPc = "idle"
    /\ jArgs = [limit |-> 0, dry_run |-> FALSE]
    /\ jFound = [typ |-> "OK", uids |-> <<>>]
    /\ jServer = <<>>
    /\ jUids = <<>> /\ jIdx = 1 /\ jSaved = 0
    /\ jArchive = <<>> /\ jLog = <<>> /\ jReported = NotReported

\* neither reduce_noise nor the fetch job has started
OthersIdle == NoiseIdle /\ FetchIdle

Init ==
    /\ msg \in Messages(FilterParts)
    /\ config \in Configs
    /\ FilterIdle("start")
    /\ NormIdle
    /\ ExportIdle
    /\ OthersIdle

\* lines 169-175
ReadConfig ==
    /\ pc = "start"
    /\ IF ReadConfigRaises(config)
       THEN /\ pc' = "raised"
            /\ UNCHANGED <<blocked_exts, keywords, opts>>
       ELSE /\ pc' = "detect"
            /\ blocked_exts' = config_blocked_exts(config)
            /\ keywords' = config_keywords(config)
            /\ opts' = config_opts(config)
    /\ UNCHANGED <<body_from, msg, config, blocked_file, subject_raw, body_raw, subject_norm,
                   body_norm, keyword_norms, haystack, kwIdx, normalized, matched,
                   result, nvars, evars, xvars>>

\* line 178
DetectAttachment ==
    /\ pc = "detect"
    /\ blocked_file' = detect_blocked_attachment(msg, blocked_exts)
    /\ pc' = "extract"
    /\ UNCHANGED <<body_from, msg, config, blocked_exts, keywords, opts, subject_raw, body_raw,
                   subject_norm, body_norm, keyword_norms, haystack, kwIdx,
                   normalized, matched, result, nvars, evars, xvars>>

\* line 179
Extract ==
    /\ pc = "extract"
    /\ subject_raw' = extract_subject(msg)
    /\ body_raw' = extract_body(msg)
    /\ body_from' = body_source(msg)
    /\ pc' = "decide"
    /\ UNCHANGED <<msg, config, blocked_exts, keywords, opts, blocked_file,
                   subject_norm, body_norm, keyword_norms, haystack, kwIdx,
                   normalized, matched, result, nvars, evars, xvars>>

\* lines 180-182
ReturnAttachment ==
    /\ pc = "decide"
    /\ Truthy(blocked_file)
    /\ result' = FilterResult(FALSE, "attachment", blocked_file, subject_raw)
    /\ pc' = "done"
    /\ UNCHANGED <<body_from, msg, config, blocked_exts, keywords, opts, blocked_file,
                   subject_raw, body_raw, subject_norm, body_norm, keyword_norms,
                   haystack, kwIdx, normalized, matched, nvars, evars, xvars>>

\* A mutation of Normalize: the step does not wait for the attachment verdict.
Normalize_Unguarded ==
    /\ pc = "decide"
    /\ subject_norm' = norm(subject_raw, opts)
    /\ body_norm' = norm(body_raw, opts)
    /\ normalized' = TRUE
    /\ pc' = "keywords"
    /\ UNCHANGED <<body_from, msg, config, blocked_exts, keywords, opts, blocked_file,
                   subject_raw, body_raw, keyword_norms, haystack, kwIdx,
                   matched, result, nvars, evars, xvars>>

\* lines 185-186
Normalize ==
    /\ pc = "decide"
    /\ ~Truthy(blocked_file)
    /\ subject_norm' = norm(subject_raw, opts)
    /\ body_norm' = norm(body_raw, opts)
    /\ normalized' = TRUE
    /\ pc' = "keywords"
    /\ UNCHANGED <<body_from, msg, config, blocked_exts, keywords, opts, blocked_file,
                   subject_raw, body_raw, keyword_norms, haystack, kwIdx,
                   matched, result, nvars, evars, xvars>>

\* lines 189-190; iterating keywords = None raises TypeError
NormalizeKeywords ==
    /\ pc = "keywords"
    /\ IF keywords.kind = "null"
       THEN /\ pc' = "raised"
            /\ UNCHANGED <<keyword_norms, haystack, kwIdx>>
       ELSE /\ keyword_norms' = [i \in DOMAIN keywords.v |-> norm(keywords.v[i], opts)]
            /\ haystack' = subject_norm \o <<32>> \o body_norm
            /\ kwIdx' = 1
            /\ pc' = "match"
    /\ UNCHANGED <<body_from, msg, config, blocked_exts, keywords, opts, blocked_file,
                   subject_raw, body_raw, subject_norm, body_norm,
                   normalized, matched, result, nvars, evars, xvars>>

\* Mutations of KeywordHits: no guard against the empty keyword; equality
\* instead of containment.
KeywordHits_NoEmptyGuard(kw, h) == Contains(h, kw)
KeywordHits_Exact(kw, h) == kw # <<>> /\ h = kw

\* line 193: kw and kw in haystack
KeywordHits(kw, h) == kw # <<>> /\ Contains(h, kw)

\* lines 192-195, one iteration of the loop
MatchKeyword ==
    /\ pc = "match"
    /\ kwIdx <= Len(keyword_norms)
    /\ matched' = TRUE
    /\ IF KeywordHits(keyword_norms[kwIdx], haystack)
       THEN /\ result' = FilterResult(FALSE, "keyword", Some(keyword_norms[kwIdx]),
                                      subject_raw)
            /\ pc' = "done"
            /\ UNCHANGED kwIdx
       ELSE /\ kwIdx' = kwIdx + 1
            /\ UNCHANGED <<pc, result>>
    /\ UNCHANGED <<body_from, msg, config, blocked_exts, keywords, opts, blocked_file,
                   subject_raw, body_raw, subject_norm, body_norm, keyword_norms,
                   haystack, normalized, nvars, evars, xvars>>

\* lines 198-199
ReturnPass ==
    /\ pc = "match"
    /\ kwIdx > Len(keyword_norms)
    /\ result' = FilterResult(TRUE, "None", NoneVal, subject_raw)
    /\ pc' = "done"
    /\ UNCHANGED <<body_from, msg, config, blocked_exts, keywords, opts, blocked_file,
                   subject_raw, body_raw, subject_norm, body_norm, keyword_norms,
                   haystack, kwIdx, normalized, matched, nvars, evars, xvars>>

(***************************************************************************)
(* append_excluded(uid, msg, reason, detail), lines 41-61.  The call reads *)
(* the clock twice: at line 36, for a message without a usable Date, and   *)
(* at line 48 for logged_at; midnight may pass in between.                 *)
(***************************************************************************)
\* lines 42-45: d, ymd and is_new
BeginAppend ==
    /\ ePc = "idle"
    /\ Len(calls) < MaxCalls
    /\ \E uid \in Uids, m \in ExportMsgs, x \in Exclusions :
          LET d == message_datetime(m, Clock(today))
          IN  eCall' = << [uid |-> uid, msg |-> m, reason |-> x[1], detail |-> x[2],
                          d |-> d, is_new |-> is_new(files, d.day)] >>
    /\ ePc' = "row"
    /\ UNCHANGED <<files, calls, today, nvars, fvars, xvars>>

\* lines 47-61: the row, with logged_at read from the clock now, is appended
AppendExcluded ==
    /\ ePc = "row"
    /\ LET c == eCall[1]
           ymd == c.d.day
           row == DataRow(c.uid, c.msg, c.reason, c.detail, c.d, Clock(today))
       IN  /\ files' = written(files, ymd, row, c.is_new)
           /\ calls' = Append(calls, [period |-> ymd, row |-> row])
    /\ ePc' = "idle"
    /\ eCall' = <<>>
    /\ UNCHANGED <<today, nvars, fvars, xvars>>

\* the wall clock passes midnight, between two calls or within one
Midnight ==
    /\ today = 1
    /\ today' = 2
    /\ UNCHANGED <<files, calls, ePc, eCall, nvars, fvars, xvars>>

InitExport ==
    /\ msg = EmptyMessage /\ config = DefaultConfig
    /\ FilterIdle("idle")
    /\ NormIdle
    /\ ExportIdle
    /\ OthersIdle

NextExport == BeginAppend \/ AppendExcluded \/ Midnight

SpecExport == InitExport /\ [][NextExport]_vars

(***************************************************************************)
(* _extract_subject_and_body on its own                                    *)
(***************************************************************************)
InitExtract ==
    /\ msg \in Messages(ExtractParts)
    /\ config = DefaultConfig
    /\ FilterIdle("extract")
    /\ NormIdle
    /\ ExportIdle
    /\ OthersIdle

NextExtract == Extract

SpecExtract == InitExtract /\ [][NextExtract]_vars

(***************************************************************************)
(* normalize_text applied once and then to its own output                  *)
(***************************************************************************)
NormAlphabet == {32, 65, 12288, 65313, 12431, 12441}
AllOpts == [to_half : BOOLEAN, unify_k : BOOLEAN, trim_sp : BOOLEAN]

InitNorm ==
    /\ nPc = "start"
    /\ nText \in {NoneVal} \cup {Some(t) : t \in SeqsUpTo(NormAlphabet, MaxLen)}
    /\ nOpts \in AllOpts
    /\ nOnce = <<>> /\ nTwice = <<>>
    /\ msg = EmptyMessage /\ config = DefaultConfig
    /\ FilterIdle("idle")
    /\ ExportIdle
    /\ OthersIdle

NormalizeOnce ==
    /\ nPc = "start"
    /\ nOnce' = normalize_text(nText, nOpts.to_half, nOpts.unify_k, nOpts.trim_sp)
    /\ nPc' = "once"
    /\ UNCHANGED <<nText, nOpts, nTwice, fvars, evars, xvars>>

NormalizeTwice ==
    /\ nPc = "once"
    /\ nTwice' = normalize_text(Some(nOnce), nOpts.to_half, nOpts.unify_k, nOpts.trim_sp)
    /\ nPc' = "twice"
    /\ UNCHANGED <<nText, nOpts, nOnce, fvars, evars, xvars>>

NextNorm == NormalizeOnce \/ NormalizeTwice

SpecNorm == InitNorm /\ [][NextNorm]_vars

(***************************************************************************)
(* reduce_noise (src/filters/noise_reducer.py).  Every entry of            *)
(* _noise_rules is modelled by what re.sub does with its pattern.          *)
(***************************************************************************)
\* Literals of the patterns.
P_on == <<10, 79, 110, 32>>                                        \* "\nOn "
P_wrote == <<32, 119, 114, 111, 116, 101, 58>>                     \* " wrote:"

\* A literal of a pattern compiled with flag i matches at index i of s.
LitAt(s, i, lit) ==
    /\ i >= 1 /\ i + Len(lit) - 1 <= Len(s)
    /\ lower(SubSeq(s, i, i + Len(lit) - 1)) = lower(lit)

\* First index >= i that does not hold the character c (Len(s)+1 if none).
RECURSIVE RunEnd(_, _, _)
RunEnd(s, i, c) == IF i <= Len(s) /\ s[i] = c THEN RunEnd(s, i + 1, c) ELSE i

\* First index >= i that holds no whitespace (Len(s)+1 if none).
RECURSIVE SpaceRunEnd(_, _)
SpaceRunEnd(s, i) ==
    IF i <= Len(s) /\ IsSpace(s[i]) THEN SpaceRunEnd(s, i + 1) ELSE i

\* First index >= i that holds a line feed (Len(s)+1 if none): where ".*"
\* stops when flag s is off.
RECURSIVE LineEnd(_, _)
LineEnd(s, i) == IF i <= Len(s) /\ s[i] # 10 THEN LineEnd(s, i + 1) ELSE i

\* "^" before index p: the start of the string, and with flag m also the
\* position after a line feed.
Caret(s, p, m) == p = 1 \/ (m /\ p - 1 <= Len(s) /\ s[p - 1] = 10)

\* "$" before index p: the end of the string or before a final line feed,
\* and with flag m also before any line feed.
Dollar(s, p, m) ==
    \/ p = Len(s) + 1
    \/ p = Len(s) /\ s[p] = 10
    \/ m /\ p <= Len(s) /\ s[p] = 10

\* ".*?$" from index p with flags i, s: the first index where "$" matches.
RECURSIVE NextDollar(_, _)
NextDollar(s, p) == IF Dollar(s, p, FALSE) THEN p ELSE NextDollar(s, p + 1)

\* rule 1, line 7:  (?is)\n--+\s*\n.*$
SignatureAt(s, i) ==
    /\ i + 2 <= Len(s)
    /\ s[i] = 10 /\ s[i + 1] = 45 /\ s[i + 2] = 45
    /\ LET j == RunEnd(s, i + 1, 45)
       IN  \E k \in j..(SpaceRunEnd(s, j) - 1) : s[k] = 10

rule_signature(s) ==
    LET M == {i \in DOMAIN s : SignatureAt(s, i)}
    IN  IF M = {} THEN s ELSE SubSeq(s, 1, MinOf(M) - 1)

\* rule 2, line 8:  (?is)\n^={3,}.*$     (flag m is not set)
FooterAt(s, i) ==
    /\ s[i] = 10
    /\ Caret(s, i + 1, FALSE)
    /\ RunEnd(s, i + 1, 61) >= i + 4

rule_footer(s) ==
    LET M == {i \in DOMAIN s : FooterAt(s, i)}
    IN  IF M = {} THEN s ELSE SubSeq(s, 1, MinOf(M) - 1)

\* lit1.*?lit2.*? ... from index p: the index after the last literal, taking
\* the earliest occurrence of each; 0 when a literal does not occur.
RECURSIVE ChainEnd(_, _, _)
ChainEnd(s, p, lits) ==
    IF lits = <<>> THEN p
    ELSE LET J == {j \in p..Len(s) : LitAt(s, j, lits[1])}
         IN  IF J = {} THEN 0
             ELSE ChainEnd(s, MinOf(J) + Len(lits[1]), Tail(lits))

\* rules 3-6, lines 10-14:  (?is)lit1.*?lit2.*? ... .*?$
rule_to_end(s, lits) ==
    LET M == {i \in DOMAIN s :
                 /\ LitAt(s, i, lits[1])
                 /\ ChainEnd(s, i + Len(lits[1]), Tail(lits)) # 0}
    IN  IF M = {} THEN s
        ELSE LET i == MinOf(M)
                 e == ChainEnd(s, i + Len(lits[1]), Tail(lits))
             IN  SubSeq(s, 1, i - 1) \o SubSeq(s, NextDollar(s, e), Len(s))

\* rule 7, line 16:  (?im)^\s*>.*$   every match from index p on is dropped
QuoteAt(s, p) ==
    /\ Caret(s, p, TRUE)
    /\ SpaceRunEnd(s, p) <= Len(s)
    /\ s[SpaceRunEnd(s, p)] = 62

RECURSIVE DropQuotes(_, _)
DropQuotes(s, p) ==
    IF p > Len(s) THEN <<>>
    ELSE IF QuoteAt(s, p) THEN DropQuotes(s, LineEnd(s, SpaceRunEnd(s, p)))
    ELSE <<s[p]>> \o DropQuotes(s, p + 1)

\* rule 8, line 17:  (?is)\nOn .*? wrote:\s*$.*
WroteAt(s, i) ==
    /\ LitAt(s, i, P_on)
    /\ \E j \in (i + Len(P_on))..Len(s) :
          /\ LitAt(s, j, P_wrote)
          /\ \E q \in (j + Len(P_wrote))..SpaceRunEnd(s, j + Len(P_wrote)) :
                Dollar(s, q, FALSE)

rule_wrote(s) ==
    LET M == {i \in DOMAIN s : WroteAt(s, i)}
    IN  IF M = {} THEN s ELSE SubSeq(s, 1, MinOf(M) - 1)

\* rule 9, line 19:  \n{3,} -> \n\n
RECURSIVE rule_blank_lines(_)
rule_blank_lines(s) ==
    IF s = <<>> THEN <<>>
    ELSE IF s[1] = 10
         THEN LET n == RunEnd(s, 1, 10) - 1
              IN  (IF n >= 3 THEN <<10, 10>> ELSE SubSeq(s, 1, n))
                  \o rule_blank_lines(SubSeq(s, n + 1, Len(s)))
         ELSE <<s[1]>> \o rule_blank_lines(Tail(s))

\* _noise_rules[k - 1] applied by re.sub(pat, rep, s), lines 5-20
RuleIds == 1..9
noise_rule(k, s) ==
    CASE k = 1 -> rule_signature(s)
      [] k = 2 -> rule_footer(s)
      [] k = 3 -> rule_to_end(s, << <<12371, 12398, 12513, 12540, 12523, 12399>>,
                                    <<27231, 23494>>,
                                    <<21547, 12414, 12428, 12390, 12356, 12427>> >>)
      [] k = 4 -> rule_to_end(s,                \* "This email", "confidential"
                     << <<84, 104, 105, 115, 32, 101, 109, 97, 105, 108>>,
                        <<99, 111, 110, 102, 105, 100, 101, 110, 116, 105, 97, 108>> >>)
      [] k = 5 -> rule_to_end(s, << <<37197, 20449, 20572, 27490>>,
                                    <<12371, 12385, 12425>> >>)
      [] k = 6 -> rule_to_end(s,                \* "unsubscribe"
                     << <<117, 110, 115, 117, 98, 115, 99, 114, 105, 98, 101>> >>)
      [] k = 7 -> DropQuotes(s, 1)
      [] k = 8 -> rule_wrote(s)
      [] k = 9 -> rule_blank_lines(s)

\* the loop of lines 26-27 from rule k on
RECURSIVE apply_rules(_, _)
apply_rules(k, s) ==
    IF k \notin RuleIds THEN s ELSE apply_rules(k + 1, noise_rule(k, s))

\* reduce_noise(text), lines 22-28
reduce_noise(text) == IF text = <<>> THEN <<>> ELSE strip(apply_rules(1, text))

\* Lines the texts of the model are made of.
NoiseLines ==
    { <<97>>,                                                      \* "a"
      <<>>,                                                        \* ""
      <<45, 45>>,                                                  \* "--"
      <<45, 45, 45, 32>>,                                          \* "--- "
      <<61, 61, 61>>,                                              \* "==="
      <<62, 97>>,                                                  \* ">a"
      <<79, 110, 32, 97, 32, 119, 114, 111, 116, 101, 58>>,        \* "On a wrote:"
      <<85, 110, 115, 117, 98, 115, 99, 114, 105, 98, 101>>,       \* "Unsubscribe"
      \* a line with the literals of rule 5
      <<37197, 20449, 20572, 27490, 12399, 12371, 12385, 12425>>,
      \* "This email is confidential"
      <<84, 104, 105, 115, 32, 101, 109, 97, 105, 108, 32, 105, 115, 32,
        99, 111, 110, 102, 105, 100, 101, 110, 116, 105, 97, 108>>,
      \* a line with the literals of rule 3
      <<12371, 12398, 12513, 12540, 12523, 12399, 27231, 23494, 12364,
        21547, 12414, 12428, 12390, 12356, 12427>> }

\* the texts: up to MaxLines lines joined by line feeds
NoiseTexts == {Join(ls, <<10>>) : ls \in SeqsUpTo(NoiseLines, MaxLines) \ {<<>>}}

InitNoise ==
    /\ rPc = "start"
    /\ rText \in NoiseTexts
    /\ rCur = <<>> /\ rIdx = 1 /\ rOut = <<>>
    /\ msg = EmptyMessage /\ config = DefaultConfig
    /\ FilterIdle("idle")
    /\ NormIdle
    /\ ExportIdle
    /\ FetchIdle

\* lines 23-24
ReturnEmpty ==
    /\ rPc = "start" /\ rText = <<>>
    /\ rOut' = <<>>
    /\ rPc' = "done"
    /\ UNCHANGED <<rText, rCur, rIdx, nvars, fvars, evars, jvars>>

\* line 25
BeginRules ==
    /\ rPc = "start" /\ rText # <<>>
    /\ rCur' = rText
    /\ rPc' = "rules"
    /\ UNCHANGED <<rText, rIdx, rOut, nvars, fvars, evars, jvars>>

\* lines 26-27, one iteration
ApplyRule ==
    /\ rPc = "rules" /\ rIdx \in RuleIds
    /\ rCur' = noise_rule(rIdx, rCur)
    /\ rIdx' = rIdx + 1
    /\ UNCHANGED <<rPc, rText, rOut, nvars, fvars, evars, jvars>>

\* line 28
ReturnStripped ==
    /\ rPc = "rules" /\ rIdx \notin RuleIds
    /\ rOut' = strip(rCur)
    /\ rPc' = "done"
    /\ UNCHANGED <<rText, rCur, rIdx, nvars, fvars, evars, jvars>>

NextNoise == ReturnEmpty \/ BeginRules \/ ApplyRule \/ ReturnStripped

SpecNoise == InitNoise /\ [][NextNoise]_vars

(***************************************************************************)
(* filter_message(msg, config) as one call: what the steps ReadConfig ..   *)
(* ReturnPass above compute from start to return, or that the call raises. *)
(***************************************************************************)
Raised == [raised |-> TRUE, res |-> NoResult]
Returned(r) == [raised |-> FALSE, res |-> r]

\* lines 192-195: index of the first keyword that hits, 0 if none
RECURSIVE first_hit(_, _, _)
first_hit(kns, h, i) ==
    IF i > Len(kns) THEN 0
    ELSE IF KeywordHits(kns[i], h) THEN i
    ELSE first_hit(kns, h, i + 1)

filter_message(m, cfg) ==
    IF ReadConfigRaises(cfg) THEN Raised
    ELSE LET exts == config_blocked_exts(cfg)
             kws == config_keywords(cfg)
             o == config_opts(cfg)
             blocked == detect_blocked_attachment(m, exts)
             subj == extract_subject(m)
             body == extract_body(m)
         IN  IF Truthy(blocked)
             THEN Returned(FilterResult(FALSE, "attachment", blocked, subj))
             ELSE IF kws.kind = "null" THEN Raised
             ELSE LET kns == [i \in DOMAIN kws.v |-> norm(kws.v[i], o)]
                      h == norm(subj, o) \o <<32>> \o norm(body, o)
                      k == first_hit(kns, h, 1)
                  IN  IF k # 0
                      THEN Returned(FilterResult(FALSE, "keyword", Some(kns[k]), subj))
                      ELSE Returned(FilterResult(TRUE, "None", NoneVal, subj))

(***************************************************************************)
(* The fetch job, src/jobs/imap_fetch.py: _search_uids and the loop of     *)
(* main.  The server's answer to SEARCH is its status and the matching     *)
(* UIDs in ascending order; its answer to FETCH of UID u is jServer[u].    *)
(***************************************************************************)
Reverse(s) == [i \in 1..Len(s) |-> s[Len(s) + 1 - i]]

\* Python: uids[:n]
SliceTo(s, n) ==
    IF n >= 0 THEN SubSeq(s, 1, IF n < Len(s) THEN n ELSE Len(s))
    ELSE SubSeq(s, 1, IF Len(s) + n > 0 THEN Len(s) + n ELSE 0)

\* _search_uids, lines 146-152
search_uids(raw, limit) ==
    LET uids == Reverse(raw)
    IN  IF limit # 0 /\ Len(uids) > limit THEN SliceTo(uids, limit) ELSE uids

\* line 206: typ != "OK" or not data or not isinstance(data[0], tuple)
FetchFailure(reply) == reply.typ # "OK" \/ ~reply.has_tuple

\* A mutation of ShouldSave: the verdict is not looked at.
ShouldSave_Always(v) == TRUE

\* line 226: the message goes on to _save_text
ShouldSave(v) == v.res.pass_through

\* Messages on the server and the rule sets of the runs.
FetchMsgs ==
    { \* passes: subject "b", one attachment README
      [subject |-> Some(<<98>>), multipart |-> TRUE, parts |-> <<PartReadme>>],
      \* body "A b" holds the keyword
      [subject |-> NoneVal, multipart |-> FALSE, parts |-> <<PartText>>],
      \* attachment a.EXE
      [subject |-> Some(<<98>>), multipart |-> TRUE, parts |-> <<PartText, PartExe>>] }

Reply(t, h, m) == [typ |-> t, has_tuple |-> h, msg |-> m]
FetchReplies ==
    {Reply("NO", FALSE, EmptyMessage), Reply("OK", FALSE, EmptyMessage)}
    \cup {Reply("OK", TRUE, m) : m \in FetchMsgs}

\* FILTER_CONF: exe blocked, and the blocklist ["A"] or present with no value
FetchConfigs ==
    {[attachments |-> Val([blocked_extensions |-> Val({W_exe})]),
      keywords |-> Val([blocklist |-> b]),
      normalization |-> Missing] : b \in {Val(<<<<65>>>>), Null}}

Limits == {-1, 0, 1, 2}

\* main after select (line 198): arguments parsed, FILTER_CONF loaded
InitFetch ==
    /\ jPc = "start"
    /\ jArgs \in [limit : Limits, dry_run : BOOLEAN]
    /\ jServer \in SeqsUpTo(FetchReplies, MaxUids)
    /\ jFound \in {[typ |-> t, uids |-> [i \in 1..Len(jServer) |-> i]] : t \in {"OK", "NO"}}
    /\ jUids = <<>> /\ jIdx = 1 /\ jSaved = 0
    /\ jArchive = <<>> /\ jLog = <<>> /\ jReported = NotReported
    /\ msg = EmptyMessage /\ config \in FetchConfigs
    /\ FilterIdle("idle")
    /\ NormIdle
    /\ ExportIdle
    /\ NoiseIdle

\* lines 199-203 with _search_uids: RuntimeError when SEARCH is not OK
SearchUids ==
    /\ jPc = "start"
    /\ IF jFound.typ # "OK"
       THEN /\ jPc' = "crashed"
            /\ UNCHANGED jUids
       ELSE /\ jUids' = search_uids(jFound.uids, jArgs.limit)
            /\ jPc' = "loop"
    /\ UNCHANGED <<jArgs, jFound, jServer, jIdx, jSaved, jArchive, jLog, jReported,
                   nvars, fvars, evars, rvars>>

\* lines 205-208
FetchFailed ==
    /\ jPc = "loop" /\ jIdx <= Len(jUids)
    /\ FetchFailure(jServer[jUids[jIdx]])
    /\ jLog' = Append(jLog, [uid |-> jUids[jIdx], line |-> "SKIP"])
    /\ jIdx' = jIdx + 1
    /\ UNCHANGED <<jPc, jArgs, jFound, jServer, jUids, jSaved, jArchive, jReported,
                   nvars, fvars, evars, rvars>>

\* lines 205-222
DryRunShow ==
    /\ jPc = "loop" /\ jIdx <= Len(jUids)
    /\ ~FetchFailure(jServer[jUids[jIdx]])
    /\ jArgs.dry_run
    /\ jLog' = Append(jLog, [uid |-> jUids[jIdx], line |-> "DRY"])
    /\ jIdx' = jIdx + 1
    /\ UNCHANGED <<jPc, jArgs, jFound, jServer, jUids, jSaved, jArchive, jReported,
                   nvars, fvars, evars, rvars>>

\* lines 205-225: filter_message raises and the exception leaves main
FilterRaised ==
    /\ jPc = "loop" /\ jIdx <= Len(jUids)
    /\ ~FetchFailure(jServer[jUids[jIdx]])
    /\ ~jArgs.dry_run
    /\ filter_message(jServer[jUids[jIdx]].msg, config).raised
    /\ jPc' = "crashed"
    /\ UNCHANGED <<jArgs, jFound, jServer, jUids, jIdx, jSaved, jArchive, jLog, jReported,
                   nvars, fvars, evars, rvars>>

\* lines 205-230
Drop ==
    /\ jPc = "loop" /\ jIdx <= Len(jUids)
    /\ ~FetchFailure(jServer[jUids[jIdx]])
    /\ ~jArgs.dry_run
    /\ LET v == filter_message(jServer[jUids[jIdx]].msg, config)
       IN  ~v.raised /\ ~ShouldSave(v)
    /\ jLog' = Append(jLog, [uid |-> jUids[jIdx], line |-> "DROP"])
    /\ jIdx' = jIdx + 1
    /\ UNCHANGED <<jPc, jArgs, jFound, jServer, jUids, jSaved, jArchive, jReported,
                   nvars, fvars, evars, rvars>>

\* lines 205-235 with _save_text
Save ==
    /\ jPc = "loop" /\ jIdx <= Len(jUids)
    /\ ~FetchFailure(jServer[jUids[jIdx]])
    /\ ~jArgs.dry_run
    /\ LET v == filter_message(jServer[jUids[jIdx]].msg, config)
       IN  ~v.raised /\ ShouldSave(v)
    /\ jArchive' = Append(jArchive, [uid |-> jUids[jIdx], msg |-> jServer[jUids[jIdx]].msg])
    /\ jLog' = Append(jLog, [uid |-> jUids[jIdx], line |-> "SAVE"])
    /\ jSaved' = jSaved + 1
    /\ jIdx' = jIdx + 1
    /\ UNCHANGED <<jPc, jArgs, jFound, jServer, jUids, jReported,
                   nvars, fvars, evars, rvars>>

\* line 237
Report ==
    /\ jPc = "loop" /\ jIdx > Len(jUids)
    /\ jReported' = [printed |-> TRUE, count |-> jSaved]
    /\ jPc' = "done"
    /\ UNCHANGED <<jArgs, jFound, jServer, jUids, jIdx, jSaved, jArchive, jLog,
                   nvars, fvars, evars, rvars>>

NextFetch ==
    \/ SearchUids
    \/ FetchFailed
    \/ DryRunShow
    \/ FilterRaised
    \/ Drop
    \/ Save
    \/ Report

SpecFetch == InitFetch /\ [][NextFetch]_vars

Next ==
    \/ ReadConfig
    \/ DetectAttachment
    \/ Extract
    \/ ReturnAttachment
    \/ Normalize
    \/ NormalizeKeywords
    \/ MatchKeyword
    \/ ReturnPass

Spec == Init /\ [][Next]_vars

(***************************************************************************)
(* What the rules of a configuration are, read from the configuration:     *)
(* a missing or valueless section or key stands for no rules.              *)
(***************************************************************************)
RuleExts(cfg) ==
    IF cfg.attachments.kind = "value"
       /\ cfg.attachments.v.blocked_extensions.kind = "value"
    THEN cfg.attachments.v.blocked_extensions.v ELSE {}

RuleKeywords(cfg) ==
    IF cfg.keywords.kind = "value" /\ cfg.keywords.v.blocklist.kind = "value"
    THEN cfg.keywords.v.blocklist.v ELSE <<>>

HasDot(fname) == \E i \in DOMAIN fname : fname[i] = 46

\* A part that is not an image by content type and carries a file name whose
\* lower-cased extension is listed as blocked.
ListedAsBlocked(p, exts) ==
    /\ Truthy(p.filename)
    /\ p.ctype.main # "image"
    /\ HasDot(p.filename.chars)
    /\ ExtOf(p.filename.chars) \in exts

ListedParts == {i \in DOMAIN msg.parts : ListedAsBlocked(msg.parts[i], RuleExts(config))}

\* A part that is not an image by content type and carries a file name whose
\* derived extension (empty when the name has no '.') is listed as blocked and
\* is not an image extension.
BlockableParts ==
    {i \in DOMAIN msg.parts :
        /\ Truthy(msg.parts[i].filename)
        /\ msg.parts[i].ctype.main # "image"
        /\ ExtOf(msg.parts[i].filename.chars) \in RuleExts(config) \ IMAGE_EXTS}

\* The haystack and the keywords that hit it, from the message and the rules.
ExpectedHaystack ==
    norm(extract_subject(msg), config_opts(config)) \o <<32>>
        \o norm(extract_body(msg), config_opts(config))

HitIndexes ==
    {i \in DOMAIN RuleKeywords(config) :
        LET k == norm(RuleKeywords(config)[i], config_opts(config))
        IN  k # <<>> /\ Contains(ExpectedHaystack, k)}

\* No key of the configuration is present with no value.
NoNullKey(cfg) ==
    /\ cfg.attachments.kind = "value" => cfg.attachments.v.blocked_extensions.kind # "null"
    /\ cfg.keywords.kind = "value" => cfg.keywords.v.blocklist.kind # "null"

IsBlank(k) == \A i \in DOMAIN k : IsSpace(k[i])

(***************************************************************************)
(* C1: every verdict has reason None exactly when pass_through is true,    *)
(* and a non-empty detail exactly when the reason is attachment or keyword.*)
(***************************************************************************)
C1_VerdictShape ==
    pc = "done" =>
        /\ result.reason \in {"None", "attachment", "keyword"}
        /\ (result.reason = "None") <=> result.pass_through
        /\ Truthy(result.detail) <=> (result.reason \in {"attachment", "keyword"})

C1_Witness ==
    /\ pc = "done" /\ result.reason = "keyword" /\ Truthy(result.detail)
    /\ ~result.pass_through

(***************************************************************************)
(* C2 as stated: a message with a part listed as blocked (non-image        *)
(* content type, extension in blocked_extensions) and a keyword that hits  *)
(* gets reason attachment, and neither normalization nor keyword matching  *)
(* runs.                                                                   *)
(***************************************************************************)
C2_AsStated ==
    (ListedParts # {} /\ HitIndexes # {}) =>
        /\ ~normalized /\ ~matched
        /\ pc = "done" => result.reason = "attachment"

(***************************************************************************)
(* C2 amended: the same for a blocked attachment whose extension is not    *)
(* one of the image extensions jpg, jpeg, png, gif, bmp, webp: the verdict *)
(* is attachment, never keyword, and in no state of the run has            *)
(* normalize_text been called or a keyword been matched.                   *)
(***************************************************************************)
C2_AttachmentPrecedence ==
    (BlockableParts # {} /\ HitIndexes # {}) =>
        /\ ~normalized /\ ~matched
        /\ pc # "raised"
        /\ pc = "done" => result.reason = "attachment"

C2_Witness ==
    /\ pc = "done" /\ BlockableParts # {} /\ HitIndexes # {}
    /\ result.reason = "attachment"

(***************************************************************************)
(* C3 as stated: a non-image part with a file name whose lower-cased       *)
(* extension is in blocked_extensions, whatever the extension, gives       *)
(* pass_through false, reason attachment, detail that file name.           *)
(***************************************************************************)
C3_AsStated ==
    (pc = "done" /\ ListedParts # {}) =>
        /\ ~result.pass_through
        /\ result.reason = "attachment"
        /\ \E i \in ListedParts : result.detail = msg.parts[i].filename

(***************************************************************************)
(* C3 amended: a non-image part with a file name whose derived extension   *)
(* (lower-cased, empty when the name has no '.') is in blocked_extensions  *)
(* and is not one of jpg, jpeg, png, gif, bmp, webp gives pass_through     *)
(* false, reason attachment, and as detail the file name, case preserved,  *)
(* of the first such part in walk order; the run does not raise.           *)
(***************************************************************************)
C3_BlockedAttachment ==
    BlockableParts # {} =>
        /\ pc # "raised"
        /\ pc = "done" =>
              /\ ~result.pass_through
              /\ result.reason = "attachment"
              /\ result.detail = msg.parts[MinOf(BlockableParts)].filename

C3_Witness ==
    /\ pc = "done"
    /\ BlockableParts # {}
    /\ msg.parts[MinOf(BlockableParts)].filename = Some(F_a_EXE)
    /\ result.detail = Some(F_a_EXE)
    /\ result.reason = "attachment"

(***************************************************************************)
(* C4: a message whose file-name-bearing parts all have an image/* content *)
(* type never gets an attachment verdict, whatever their extensions and    *)
(* the blocked list; it passes unless a keyword hits (and a verdict is     *)
(* returned whenever no key of the configuration is valueless).            *)
(***************************************************************************)
OnlyImageFilenames ==
    \A i \in DOMAIN msg.parts :
        Truthy(msg.parts[i].filename) => msg.parts[i].ctype.main = "image"

C4_ImagesNeverBlocked ==
    OnlyImageFilenames =>
        /\ NoNullKey(config) => pc # "raised"
        /\ pc = "done" =>
              /\ result.reason # "attachment"
              /\ result.pass_through <=> (HitIndexes = {})

C4_Witness ==
    /\ pc = "done" /\ OnlyImageFilenames
    /\ \E i \in DOMAIN msg.parts :
          /\ Truthy(msg.parts[i].filename)
          /\ ExtOf(msg.parts[i].filename.chars) \in RuleExts(config)
          /\ ExtOf(msg.parts[i].filename.chars) \notin IMAGE_EXTS
    /\ result.pass_through

(***************************************************************************)
(* C5: a keyword that is empty or only whitespace never causes a keyword   *)
(* verdict, whatever the normalization options.                            *)
(***************************************************************************)
C5_BlankKeywordNeverHits ==
    (pc = "done" /\ result.reason = "keyword") => ~IsBlank(keywords.v[kwIdx])

(***************************************************************************)
(* C6 as stated: without an attachment verdict, the verdict is keyword iff *)
(* some keyword's normalized form is non-empty and in the haystack, the    *)
(* first such keyword wins, and detail is that rule entry as written.      *)
(***************************************************************************)
C6_AsStated ==
    (pc = "done" /\ result.reason # "attachment") =>
        IF HitIndexes # {}
        THEN /\ ~result.pass_through
             /\ result.reason = "keyword"
             /\ result.detail = Some(RuleKeywords(config)[MinOf(HitIndexes)])
        ELSE result.pass_through /\ result.reason = "None"

(***************************************************************************)
(* C6 amended: ... the first such keyword in declared order wins, and      *)
(* detail is the normalized form of that keyword; otherwise the verdict is *)
(* pass_through.  (A verdict is returned whenever no key of the            *)
(* configuration is valueless.)                                            *)
(***************************************************************************)
C6_FirstKeywordWins ==
    /\ NoNullKey(config) => pc # "raised"
    /\ (pc = "done" /\ result.reason # "attachment") =>
        IF HitIndexes # {}
        THEN /\ ~result.pass_through
             /\ result.reason = "keyword"
             /\ result.detail =
                   Some(norm(RuleKeywords(config)[MinOf(HitIndexes)], config_opts(config)))
        ELSE result.pass_through /\ result.reason = "None" /\ result.detail = NoneVal

C6_Witness ==
    /\ pc = "done" /\ result.reason = "keyword"
    /\ Cardinality(HitIndexes) >= 2
    /\ RuleKeywords(config)[1] # RuleKeywords(config)[2]
    /\ result.detail # Some(RuleKeywords(config)[MinOf(HitIndexes)])

(***************************************************************************)
(* C9: filter_message never raises, also for a configuration in which a    *)
(* section or a key is missing or present with no value.                   *)
(***************************************************************************)
C9_NeverRaises == pc # "raised"

(***************************************************************************)
(* C7 as stated: if the message has any text/plain part, whatever its      *)
(* disposition, the body comes from text/plain parts only, and the HTML    *)
(* fallback is used only when there is no text/plain part.                 *)
(***************************************************************************)
AnyPlainPart == \E i \in DOMAIN msg.parts : msg.parts[i].ctype = CT("text", "plain")

C7_AsStated ==
    pc = "decide" =>
        /\ AnyPlainPart => body_from = "plain"
        /\ body_from = "html" => ~AnyPlainPart

(***************************************************************************)
(* C7 amended: if the message is a single text/plain part, or is multipart *)
(* with a text/plain part whose Content-Disposition does not contain       *)
(* "attachment" and whose payload decodes under its declared charset, the  *)
(* body is the newline-join of the texts of exactly those parts; the HTML  *)
(* fallback is used only when there is no such part.                       *)
(***************************************************************************)
SelectedPlain ==
    IF msg.multipart
    THEN {i \in DOMAIN msg.parts :
            /\ msg.parts[i].ctype = CT("text", "plain")
            /\ ~Contains(lower(msg.parts[i].disp), W_attachment)
            /\ msg.parts[i].charset_ok}
    ELSE {i \in DOMAIN msg.parts : msg.parts[i].ctype = CT("text", "plain")}

RECURSIVE PickTexts(_, _, _)
PickTexts(ps, I, i) ==
    IF i > Len(ps) THEN <<>>
    ELSE (IF i \in I THEN <<IF ps[i].charset_ok THEN ps[i].text ELSE <<>> >> ELSE <<>>)
            \o PickTexts(ps, I, i + 1)

C7_PlainBeforeHtml ==
    pc = "decide" =>
        /\ SelectedPlain # {} =>
              /\ body_from = "plain"
              /\ body_raw = Join(PickTexts(msg.parts, SelectedPlain, 1), <<10>>)
        /\ body_from = "html" => SelectedPlain = {}

C7_Witness ==
    /\ pc = "decide" /\ msg.multipart
    /\ SelectedPlain # {}
    /\ \E i \in DOMAIN msg.parts : msg.parts[i] = PartHtml
    /\ body_from = "plain" /\ body_raw = T_A_b

(***************************************************************************)
(* C8: with trim_spaces true, normalizing a normalized text changes        *)
(* nothing: normalize(normalize(t, o), o) = normalize(t, o).               *)
(***************************************************************************)
C8_Idempotent == (nPc = "twice" /\ nOpts.trim_sp) => nTwice = nOnce

(***************************************************************************)
(* C10: after any sequence of calls of append_excluded, the file of each   *)
(* period holds one header row followed by one data row per call for that  *)
(* period, in call order; a period without a call has no file.             *)
(***************************************************************************)
CallsFor(p) == LET ForP(c) == c.period = p IN SelectSeq(calls, ForP)

C10_AppendOnly ==
    \A p \in PeriodIds :
        IF CallsFor(p) = <<>>
        THEN ~files[p].exists /\ files[p].rows = <<>>
        ELSE /\ files[p].exists
             /\ Len(files[p].rows) = Len(CallsFor(p)) + 1
             /\ files[p].rows[1].header
             /\ files[p].rows[1] = HeaderRow
             /\ \A i \in 1..Len(CallsFor(p)) :
                   /\ ~files[p].rows[i + 1].header
                   /\ files[p].rows[i + 1] = CallsFor(p)[i].row

C10_Witness ==
    \E p, q \in PeriodIds :
        /\ p # q
        /\ Len(CallsFor(p)) >= 2 /\ Len(files[p].rows) = Len(CallsFor(p)) + 1
        /\ Len(CallsFor(q)) >= 1 /\ files[q].exists
        \* one of the calls for p saw midnight pass between its two clock reads
        /\ \E i \in DOMAIN calls :
              /\ calls[i].period = p
              /\ calls[i].row.cells[3] = Clock(p)
              /\ calls[i].row.cells[1] = Clock(p + 1)

(***************************************************************************)
(* Lines of a text, for the properties of reduce_noise.                    *)
(***************************************************************************)
\* indexes at which a line of s starts
LineStarts(s) == {p \in 1..(Len(s) + 1) : p = 1 \/ s[p - 1] = 10}

\* the line of s that starts at index p, without its line feed
LineAt(s, p) == SubSeq(s, p, LineEnd(s, p) - 1)

\* the text of s before the line that starts at index p
TextBefore(s, p) == SubSeq(s, 1, p - 2)

\* a line of three or more '=' and nothing else
IsFooterLine(l) == Len(l) >= 3 /\ \A i \in DOMAIN l : l[i] = 61

\* a line of two or more '-', optionally followed by whitespace
IsMarkerLine(l) ==
    /\ RunEnd(l, 1, 45) >= 3
    /\ SpaceRunEnd(l, RunEnd(l, 1, 45)) = Len(l) + 1

FooterLines(s) == {p \in LineStarts(s) : IsFooterLine(LineAt(s, p))}
MarkerLines(s) == {p \in LineStarts(s) : IsMarkerLine(LineAt(s, p))}

\* C11: once reduce_noise has returned for a text with a line of three or
\* more '=', the separator line and everything after it are gone: the output
\* is what reduce_noise returns for the text before the first such line.
C11_FooterRemoved ==
    (rPc = "done" /\ FooterLines(rText) # {})
        => rOut = reduce_noise(TextBefore(rText, MinOf(FooterLines(rText))))

\* C12: once reduce_noise has returned for a text with a line of two or more
\* dashes (optionally followed by whitespace), on whichever line it stands,
\* nothing from that line to the end is left: the output is what reduce_noise
\* returns for the text before the first such line.
C12_SignatureRemoved ==
    (rPc = "done" /\ MarkerLines(rText) # {})
        => rOut = reduce_noise(TextBefore(rText, MinOf(MarkerLines(rText))))

(***************************************************************************)
(* Properties of the fetch job.                                            *)
(***************************************************************************)
\* what filter_message does with the message the server holds for UID u
VerdictOf(u) == filter_message(jServer[u].msg, config)

\* UID u is fetched and its message passes the filter
Passes(u) ==
    /\ ~FetchFailure(jServer[u])
    /\ ~VerdictOf(u).raised
    /\ VerdictOf(u).res.pass_through

\* the UIDs of a log or of the archive, in order
UidsOf(entries) == [i \in DOMAIN entries |-> entries[i].uid]

\* C13: every message in the archive was fetched and filter_message returned
\* pass_through = true for it, so no message with an attachment or keyword
\* verdict reaches _save_text; a dry run archives nothing.
C13_ArchiveOnlyPassed ==
    /\ \A i \in DOMAIN jArchive :
          /\ Passes(jArchive[i].uid)
          /\ jArchive[i].msg = jServer[jArchive[i].uid].msg
    /\ jArgs.dry_run => jArchive = <<>>

\* A run without --dry-run has ended with one message archived, one dropped
\* for an attachment and one dropped for a keyword.
C13_Witness ==
    /\ jPc = "done" /\ ~jArgs.dry_run
    /\ Len(jArchive) = 1
    /\ \E i \in DOMAIN jLog :
          jLog[i].line = "DROP" /\ VerdictOf(jLog[i].uid).res.reason = "attachment"
    /\ \E i \in DOMAIN jLog :
          jLog[i].line = "DROP" /\ VerdictOf(jLog[i].uid).res.reason = "keyword"

\* C14: once SEARCH has succeeded and the job has stopped, the selected UIDs
\* are the newest ones first and at most `limit` of them, each of them has
\* been processed exactly once and in that order (a failed FETCH only skips
\* its own UID), and the saved count that is reported is the number of
\* selected UIDs that were fetched and passed the filter (zero in a dry run).
C14_EveryUidOnce ==
    (jPc \in {"done", "crashed"} /\ jFound.typ = "OK") =>
        /\ Len(jUids) <= jArgs.limit
        /\ \E n \in 0..Len(jFound.uids) : jUids = SubSeq(Reverse(jFound.uids), 1, n)
        /\ UidsOf(jLog) = jUids
        /\ jReported.printed
        /\ jReported.count =
              IF jArgs.dry_run THEN 0
              ELSE Cardinality({i \in DOMAIN jUids : Passes(jUids[i])})

====
